---- MODULE Spec2Model ----
(***************************************************************************)
(* Arduino chatbot backend: the /chat orchestrator (backend/main.py) and   *)
(* the two provider adapters (backend/providers/groq_provider.py and       *)
(* backend/providers/openai_provider.py).                                  *)
(*                                                                         *)
(* Conventions.  A Python str that the code inspects character by          *)
(* character (the provider name, which is lower-cased) is a sequence of    *)
(* one-character strings.  Every other str is a TLA+ string.  A message    *)
(* built by an f-string or by str(e) is the sequence of its fragments, in  *)
(* order.  The emoji that prefix the literals of the source are left out   *)
(* of the literals here (the parser accepts ASCII only).  A JSON object is *)
(* a record whose DOMAIN is the set of keys present.  A JSON value whose    *)
(* type the code does not fix (the content of a completion) is a record    *)
(* [type |-> the name of its Python type, value |-> the value].  A call    *)
(* either returns or raises: [kind |-> "return", value |-> v] or           *)
(* [kind |-> "raise", exc |-> e].                                          *)
(***************************************************************************)
EXTENDS Integers, Sequences, FiniteSets, TLC

VARIABLES
    env,            \* the process environment: variable name -> value or None
    pc,             \* per call: "idle", "awaiting" (suspended in client.post),
                    \* "closing" (suspended in the client's __aexit__) or "done"
    entry,          \* per call: "http" (POST /chat) or "direct" (adapter used on its own)
    request,        \* per call: the ChatRequest (http) or the arguments (direct)
    construction,   \* per call: what the adapter's __init__ returned or raised, if it ran
    adapter,        \* per call: the adapter instance whose chat is invoked
    messages,       \* per call: the messages argument of the adapter's chat
    payload,        \* per call: the JSON body of the outbound POST
    adapterResult,  \* per call: what the adapter's chat returned or raised
    httpResult,     \* per call: what POST /chat answered
    chatCalls,      \* per call: number of invocations of an adapter's chat
    outboundCalls,  \* per call: number of outbound client.post calls
    selectedModel,  \* per call: the local selected_model of the adapter's chat
    upstream,       \* per call: what client.post returned or raised (the local
                    \* response, or the exception in flight)
    credChecks,     \* per adapter class: number of evaluations of "if not self.api_key"
    healthAnswer,   \* the last answer of GET /health
    providersAnswer,\* the last answer of GET /providers
    served          \* number of calls started since process start

vars == <<env, pc, entry, request, construction, adapter, messages, payload, selectedModel,
          upstream, adapterResult, httpResult, chatCalls, outboundCalls,
          credChecks, healthAnswer, providersAnswer, served>>

-----------------------------------------------------------------------------
(* Bounds *)

NumSlots == 2
MaxHistoryLen == 12
MaxRequests == 2

Slots == 1..NumSlots

-----------------------------------------------------------------------------
(* Python values *)

None == "None"

\* a variable that holds nothing yet
NoValue == [kind |-> "none"]

\* truthiness of an Optional[str]: None and "" are falsy
Truthy(v) == v # None /\ v # ""

\* str.lower() on the letters; every other character is left alone
LowerChar(c) ==
    CASE c = "A" -> "a" [] c = "B" -> "b" [] c = "C" -> "c" [] c = "D" -> "d"
      [] c = "E" -> "e" [] c = "F" -> "f" [] c = "G" -> "g" [] c = "H" -> "h"
      [] c = "I" -> "i" [] c = "J" -> "j" [] c = "K" -> "k" [] c = "L" -> "l"
      [] c = "M" -> "m" [] c = "N" -> "n" [] c = "O" -> "o" [] c = "P" -> "p"
      [] c = "Q" -> "q" [] c = "R" -> "r" [] c = "S" -> "s" [] c = "T" -> "t"
      [] c = "U" -> "u" [] c = "V" -> "v" [] c = "W" -> "w" [] c = "X" -> "x"
      [] c = "Y" -> "y" [] c = "Z" -> "z" [] OTHER -> c

Lower(s) == [k \in 1..Len(s) |-> LowerChar(s[k])]

\* list[:n] in place of list[-n:]
FirstN(list, n) ==
    IF Len(list) <= n THEN list ELSE SubSeq(list, 1, n)

\* list[-n:] for n > 0
LastN(list, n) ==
    IF Len(list) <= n THEN list ELSE SubSeq(list, Len(list) - n + 1, Len(list))

\* a value of the Python type named
PyStr(s) == [type |-> "str", value |-> s]
PyNone == [type |-> "NoneType", value |-> None]
PyInt(n) == [type |-> "int", value |-> n]
PyList(l) == [type |-> "list", value |-> l]

\* str(n) for a digit
DigitText(n) ==
    CASE n = 0 -> "0" [] n = 1 -> "1" [] n = 2 -> "2" [] n = 3 -> "3" [] n = 4 -> "4"
      [] n = 5 -> "5" [] n = 6 -> "6" [] n = 7 -> "7" [] n = 8 -> "8" [] n = 9 -> "9"

\* repr(v), as fragments, of None, of a digit and of a list of at most one str
Repr(v) ==
    CASE v.type = "NoneType" -> <<"None">>
      [] v.type = "int" -> <<DigitText(v.value)>>
      [] v.type = "list" ->
            IF v.value = <<>> THEN <<"[]">>
            ELSE <<"['", v.value[1], "']">>

Return(v) == [kind |-> "return", value |-> v]
Raise(e)  == [kind |-> "raise", exc |-> e]

\* Exception(msg), ValueError(msg), ...: str(e) is the message
Exc(type, msg) == [type |-> type, msg |-> msg]

HTTPException(status_code, detail) ==
    [type |-> "HTTPException", status_code |-> status_code, detail |-> detail]

\* str(e) of a KeyError is the repr of the key
StrOf(e) == IF e.type = "KeyError" THEN <<"'">> \o e.msg \o <<"'">> ELSE e.msg

\* str(int) for the status codes an upstream answers with
StatusText(status) ==
    CASE status = 200 -> "200" [] status = 400 -> "400" [] status = 401 -> "401"
      [] status = 402 -> "402" [] status = 404 -> "404" [] status = 429 -> "429"
      [] status = 500 -> "500" [] status = 503 -> "503"

-----------------------------------------------------------------------------
(* backend/main.py: module constants *)

\* The fixed system prompt (its text is abbreviated to its first sentence)
ARDUINO_SYSTEM_PROMPT ==
    "You are an expert Arduino teaching assistant designed for international school students."

\* the 10 of conversation_history[-10:]
MAX_HISTORY == 10

SystemTurn == [role |-> "system", content |-> ARDUINO_SYSTEM_PROMPT]
UserTurn(message) == [role |-> "user", content |-> message]

-----------------------------------------------------------------------------
(* backend/providers: the adapter classes *)

AdapterClasses == {"GroqProvider", "OpenRouterProvider"}

\* The modules that exist in backend/providers (the process runs in backend/)
ProviderModules == {"providers.groq_provider", "providers.openai_provider"}

GROQ_AVAILABLE_MODELS ==
    {"llama-3.1-8b-instant", "llama-3.3-70b-versatile", "gemma2-9b-it",
     "mixtral-8x7b-32768"}

GROQ_DEFAULT_MODEL == "llama-3.1-8b-instant"

OPENROUTER_AVAILABLE_MODELS ==
    {"mistralai/mistral-7b-instruct:free", "meta-llama/llama-3-8b-instruct:free",
     "meta-llama/llama-3.1-8b-instruct:free", "google/gemma-2-9b-it:free",
     "microsoft/phi-3-mini-128k-instruct:free", "qwen/qwen-2-7b-instruct:free",
     "mistralai/mixtral-8x7b-instruct", "openai/gpt-3.5-turbo"}

OPENROUTER_DEFAULT_MODEL == "mistralai/mistral-7b-instruct:free"

AVAILABLE_MODELS(cls) ==
    IF cls = "GroqProvider" THEN GROQ_AVAILABLE_MODELS ELSE OPENROUTER_AVAILABLE_MODELS

DEFAULT_MODEL(cls) ==
    IF cls = "GroqProvider" THEN GROQ_DEFAULT_MODEL ELSE OPENROUTER_DEFAULT_MODEL

\* the environment variable each __init__ reads
KeyVariable(cls) ==
    IF cls = "GroqProvider" THEN "GROQ_API_KEY" ELSE "OPENROUTER_API_KEY"

MissingKeyMessage(cls) ==
    IF cls = "GroqProvider"
    THEN <<"GROQ_API_KEY not found!\n",
           "Get your free key from: https://console.groq.com/keys\n",
           "Then add it to your .env file: GROQ_API_KEY=your_key_here">>
    ELSE <<"OPENROUTER_API_KEY not found!\n",
           "Get your free key from: https://openrouter.ai/keys\n",
           "Then add it to your .env file: OPENROUTER_API_KEY=your_key_here">>

\* the constructor accepts whatever the environment holds
ConstructUnchecked(cls, e) ==
    Return([cls |-> cls, api_key |-> e[KeyVariable(cls)]])

\* cls(): __init__ reads the key from the environment and refuses a falsy one
Construct(cls, e) ==
    LET api_key == e[KeyVariable(cls)] IN
    IF ~Truthy(api_key)
    THEN Raise(Exc("ValueError", MissingKeyMessage(cls)))
    ELSE Return([cls |-> cls, api_key |-> api_key])

\* the hint is used without the catalog lookup
SelectModelUnvalidated(cls, model) ==
    IF Truthy(model) THEN model ELSE DEFAULT_MODEL(cls)

\* selected_model = model or DEFAULT_MODEL, replaced by the default when it is
\* no key of AVAILABLE_MODELS
SelectModel(cls, model) ==
    LET selected_model == IF Truthy(model) THEN model ELSE DEFAULT_MODEL(cls) IN
    IF selected_model \notin AVAILABLE_MODELS(cls)
    THEN DEFAULT_MODEL(cls)
    ELSE selected_model

\* the system turn is left out of the body
GroqPayloadWithoutSystem(selected_model, msgs) ==
    [model |-> selected_model,
     messages |-> SelectSeq(msgs, LAMBDA t : t.role # "system"),
     temperature |-> "0.7", max_tokens |-> 1024, top_p |-> 1, stream |-> FALSE]

\* the JSON body of the POST; temperature 0.7 is written as the string "0.7"
GroqPayload(selected_model, msgs) ==
    [model |-> selected_model, messages |-> msgs, temperature |-> "0.7",
     max_tokens |-> 1024, top_p |-> 1, stream |-> FALSE]

OpenRouterPayload(selected_model, msgs) ==
    [model |-> selected_model, messages |-> msgs, temperature |-> "0.7",
     max_tokens |-> 1024, top_p |-> 1]

BuildPayload(cls, selected_model, msgs) ==
    IF cls = "GroqProvider"
    THEN GroqPayload(selected_model, msgs)
    ELSE OpenRouterPayload(selected_model, msgs)

\* data["choices"][-1] in place of data["choices"][0]
LastCompletion(data) ==
    IF "choices" \notin DOMAIN data
    THEN Raise(Exc("KeyError", <<"choices">>))
    ELSE IF Len(data.choices) = 0
    THEN Raise(Exc("IndexError", <<"list index out of range">>))
    ELSE Return(data.choices[Len(data.choices)].message.content)

\* data["choices"][0]["message"]["content"]
FirstCompletion(data) ==
    IF "choices" \notin DOMAIN data
    THEN Raise(Exc("KeyError", <<"choices">>))
    ELSE IF Len(data.choices) = 0
    THEN Raise(Exc("IndexError", <<"list index out of range">>))
    ELSE Return(data.choices[1].message.content)

\* what client.post / raise_for_status raise for a reply that is no 2xx response
IsSuccess(reply) ==
    reply.kind = "response" /\ reply.status_code >= 200 /\ reply.status_code < 300

\* GroqProvider.chat from the reply on
GroqChatReceive(selected_model, reply) ==
    IF reply.kind = "timeout"
    THEN Raise(Exc("Exception", <<"Groq API timeout. Please try again.">>))
    ELSE IF reply.kind = "connect_error"
    THEN Raise(Exc("ConnectError", <<"All connection attempts failed">>))
    ELSE IF ~IsSuccess(reply)
    THEN LET status == reply.status_code IN
         IF status = 401
         THEN Raise(Exc("Exception", <<"Invalid GROQ_API_KEY. Check your .env file.">>))
         ELSE IF status = 429
         THEN Raise(Exc("Exception",
                        <<"Groq rate limit reached. Wait a moment and try again.">>))
         ELSE IF status = 503
         THEN Raise(Exc("Exception",
                        <<"Groq service unavailable. Try another provider.">>))
         ELSE Raise(Exc("Exception",
                        <<"Groq API error ", StatusText(status), ": ", reply.text>>))
    ELSE LET data == reply.json
             content == FirstCompletion(data) IN
         IF content.kind = "raise"
         THEN content
         ELSE Return([response |-> content.value, model |-> selected_model])

\* OpenRouterProvider.chat from the reply on
OpenRouterChatReceive(selected_model, reply) ==
    IF reply.kind = "timeout"
    THEN Raise(Exc("Exception",
                   <<"OpenRouter timeout.\n",
                     "Free models can be slow sometimes. Try again or switch to Groq.">>))
    ELSE IF reply.kind = "connect_error"
    THEN Raise(Exc("ConnectError", <<"All connection attempts failed">>))
    ELSE IF ~IsSuccess(reply)
    THEN LET status == reply.status_code IN
         IF status = 401
         THEN Raise(Exc("Exception",
                        <<"Invalid OPENROUTER_API_KEY. Check your .env file.">>))
         ELSE IF status = 402
         THEN Raise(Exc("Exception",
                        <<"No credits left on OpenRouter.\n",
                          "Switch to a free model (models ending in ':free') or add credits.">>))
         ELSE IF status = 429
         THEN Raise(Exc("Exception",
                        <<"OpenRouter rate limit reached. Wait a moment and try again.">>))
         ELSE IF status = 503
         THEN Raise(Exc("Exception",
                        <<"OpenRouter model unavailable.\n",
                          "Try a different model or switch to Groq provider.">>))
         ELSE Raise(Exc("Exception",
                        <<"OpenRouter API error ", StatusText(status), ": ", reply.text>>))
    ELSE LET data == reply.json IN
         IF "error" \in DOMAIN data
         THEN LET error_msg == IF "message" \in DOMAIN data.error
                               THEN data.error.message
                               ELSE "Unknown error" IN
              Raise(Exc("Exception", <<"OpenRouter error: ", error_msg>>))
         ELSE LET content == FirstCompletion(data) IN
              IF content.kind = "raise"
              THEN content
              ELSE Return([response |-> content.value, model |-> selected_model])

ChatReceive(cls, selected_model, reply) ==
    IF cls = "GroqProvider"
    THEN GroqChatReceive(selected_model, reply)
    ELSE OpenRouterChatReceive(selected_model, reply)

-----------------------------------------------------------------------------
(* backend/main.py: the provider router and the /chat handler *)

GROQ == <<"g", "r", "o", "q">>
OPENROUTER == <<"o", "p", "e", "n", "r", "o", "u", "t", "e", "r">>

\* from <module> import <cls>; return <cls>()
\* result: what the statement returns or raises; inits: the __init__ calls it ran
ImportAndConstruct(module, cls, e) ==
    IF module \notin ProviderModules
    THEN [result |-> Raise(Exc("ModuleNotFoundError",
                               <<"No module named '", module, "'">>)),
          inits |-> <<>>]
    ELSE [result |-> Construct(cls, e), inits |-> <<cls>>]

\* an unknown name falls back to the Groq adapter
get_providerWithFallback(provider_name, e) ==
    LET name == Lower(provider_name) IN
    IF name = OPENROUTER
    THEN ImportAndConstruct("providers.openrouter_provider", "OpenRouterProvider", e)
    ELSE ImportAndConstruct("providers.groq_provider", "GroqProvider", e)

get_provider(provider_name, e) ==
    LET name == Lower(provider_name) IN
    IF name = GROQ
    THEN ImportAndConstruct("providers.groq_provider", "GroqProvider", e)
    ELSE IF name = OPENROUTER
    THEN ImportAndConstruct("providers.openrouter_provider", "OpenRouterProvider", e)
    ELSE [result |-> Raise(HTTPException(400,
                              <<"Unknown provider: '">> \o name
                                  \o <<"'. Use: groq | openrouter">>)),
          inits |-> <<>>]

\* messages = [system] + conversation_history[-10:] + [user]
BuildMessages(req) ==
    <<SystemTurn>> \o LastN(req.conversation_history, MAX_HISTORY)
                   \o <<UserTurn(req.message)>>

\* except HTTPException: raise / except Exception as e: HTTPException(500, str(e))
HandleException(exc) ==
    IF exc.type = "HTTPException"
    THEN [status_code |-> exc.status_code, detail |-> exc.detail]
    ELSE [status_code |-> 500, detail |-> StrOf(exc)]

\* str(e) of the ValidationError pydantic raises for a response that is no str
\* (the address names the installed pydantic, 2.13)
ValidationErrorMessage(v) ==
    <<"1 validation error for ChatResponse\n", "response\n",
      "  Input should be a valid string [type=string_type, input_value=">>
    \o Repr(v)
    \o <<", input_type=", v.type, "]\n",
         "    For further information visit https://errors.pydantic.dev/2.13/v/string_type">>

\* ChatResponse(response=result["response"], provider=request.provider,
\*              model=result["model"]), a pydantic model with response: str
ChatResponse(req, result) ==
    IF result.response.type # "str"
    THEN Raise(Exc("ValidationError", ValidationErrorMessage(result.response)))
    ELSE Return([response |-> result.response.value, provider |-> req.provider,
                 model |-> result.model])

\* the handler from the adapter's return or raise on: the response model is
\* built inside the try, so its ValidationError is handled like any exception
ChatFinish(req, res) ==
    IF res.kind = "raise"
    THEN HandleException(res.exc)
    ELSE LET answer == ChatResponse(req, res.value) IN
         IF answer.kind = "raise"
         THEN HandleException(answer.exc)
         ELSE [status_code |-> 200, body |-> answer.value]

\* GET /health, with a flag that is true for any value that is set, "" included
health_checkPresence(e) ==
    [status |-> "ok",
     providers |-> [groq |-> e["GROQ_API_KEY"] # None,
                    openrouter |-> e["OPENROUTER_API_KEY"] # None]]

\* GET /health: bool(os.getenv(...)) per provider
health_check(e) ==
    [status |-> "ok",
     providers |-> [groq |-> Truthy(e["GROQ_API_KEY"]),
                    openrouter |-> Truthy(e["OPENROUTER_API_KEY"])]]

\* GET /providers: the literal listing
list_providers ==
    [providers |->
        << [name |-> "groq",
            description |-> "Fast & free - Best for students",
            default_model |-> "llama3-8b-8192",
            requires_api_key |-> TRUE],
           [name |-> "openrouter",
            description |-> "Multiple free models available",
            default_model |-> "mistralai/mistral-7b-instruct:free",
            requires_api_key |-> TRUE] >>]

-----------------------------------------------------------------------------
(* Inputs *)

EnvVariables == {"GROQ_API_KEY", "OPENROUTER_API_KEY"}
EnvValues == {None, "", "secret-key"}

ProviderNames ==
    { GROQ, <<"G", "R", "O", "Q">>, OPENROUTER,
      <<"O", "p", "e", "n", "R", "o", "u", "t", "e", "r">>,
      <<"a", "n", "t", "h", "r", "o", "p", "i", "c">>, <<>> }

ModelHints ==
    { None, "", "llama-3.3-70b-versatile", "openai/gpt-3.5-turbo", "gpt-4" }

Messages == { "How do I blink an LED?", "" }

TurnTexts ==
    << "q1", "a1", "q2", "a2", "q3", "a3", "q4", "a4", "q5", "a5", "q6", "a6",
       "q7", "a7", "q8", "a8", "q9", "a9" >>

HistoryTurn(k) ==
    [role |-> IF k % 2 = 1 THEN "user" ELSE "assistant", content |-> TurnTexts[k]]

\* the conversation of n turns
History(n) == [k \in 1..n |-> HistoryTurn(k)]

Histories == { History(n) : n \in 0..MaxHistoryLen }

ChatRequests ==
    [message : Messages, provider : ProviderNames, model : ModelHints,
     conversation_history : Histories]

DirectMessages == { <<UserTurn("How do I blink an LED?")>>,
                    <<SystemTurn, HistoryTurn(1), HistoryTurn(2), UserTurn("")>> }

Completion(content) == [message |-> [role |-> "assistant", content |-> content]]

ErrorStatuses == {400, 401, 402, 404, 429, 500, 503}

JsonBodies ==
    { [choices |-> <<Completion(PyStr("Use pinMode and digitalWrite."))>>],
      [choices |-> <<Completion(PyStr("  first \n")), Completion(PyStr("second"))>>],
      [choices |-> <<Completion(PyNone)>>],
      [choices |-> <<Completion(PyInt(5))>>],
      [choices |-> <<Completion(PyList(<<"a">>))>>],
      [choices |-> <<>>],
      [id |-> "gen-1"],
      [error |-> [message |-> "no route"]],
      [error |-> [code |-> "502"]],
      [error |-> [message |-> "no route"],
       choices |-> <<Completion(PyStr("Use pinMode and digitalWrite."))>>] }

Replies ==
    { [kind |-> "timeout"], [kind |-> "connect_error"] }
    \cup { [kind |-> "response", status_code |-> s, text |-> "upstream body"] :
           s \in ErrorStatuses }
    \cup { [kind |-> "response", status_code |-> 200, json |-> j] : j \in JsonBodies }

-----------------------------------------------------------------------------
(* The state machine *)

Init ==
    /\ env \in [EnvVariables -> EnvValues]
    /\ pc = [i \in Slots |-> "idle"]
    /\ entry = [i \in Slots |-> "http"]
    /\ request = [i \in Slots |-> NoValue]
    /\ construction = [i \in Slots |-> NoValue]
    /\ adapter = [i \in Slots |-> NoValue]
    /\ messages = [i \in Slots |-> <<>>]
    /\ payload = [i \in Slots |-> NoValue]
    /\ selectedModel = [i \in Slots |-> None]
    /\ upstream = [i \in Slots |-> NoValue]
    /\ adapterResult = [i \in Slots |-> NoValue]
    /\ httpResult = [i \in Slots |-> NoValue]
    /\ chatCalls = [i \in Slots |-> 0]
    /\ healthAnswer = NoValue
    /\ providersAnswer = NoValue
    /\ outboundCalls = [i \in Slots |-> 0]
    /\ credChecks = [c \in AdapterClasses |-> 0]
    /\ served = 0

\* the selected model is kept where every call in flight reads it
SendShared(i, self, msgs, model) ==
    LET sel == SelectModel(self.cls, model) IN
    /\ adapter' = [adapter EXCEPT ![i] = self]
    /\ messages' = [messages EXCEPT ![i] = msgs]
    /\ selectedModel' = [j \in Slots |-> IF j = i \/ pc[j] \in {"awaiting", "closing"} THEN sel
                                         ELSE selectedModel[j]]
    /\ payload' = [payload EXCEPT ![i] = BuildPayload(self.cls, sel, msgs)]
    /\ chatCalls' = [chatCalls EXCEPT ![i] = 1]
    /\ outboundCalls' = [outboundCalls EXCEPT ![i] = 1]
    /\ upstream' = [upstream EXCEPT ![i] = NoValue]
    /\ adapterResult' = [adapterResult EXCEPT ![i] = NoValue]
    /\ httpResult' = [httpResult EXCEPT ![i] = NoValue]
    /\ pc' = [pc EXCEPT ![i] = "awaiting"]

\* the adapter's chat up to its await of client.post
Send(i, self, msgs, model) ==
    LET sel == SelectModel(self.cls, model) IN
    /\ adapter' = [adapter EXCEPT ![i] = self]
    /\ messages' = [messages EXCEPT ![i] = msgs]
    /\ selectedModel' = [selectedModel EXCEPT ![i] = sel]
    /\ payload' = [payload EXCEPT ![i] = BuildPayload(self.cls, sel, msgs)]
    /\ chatCalls' = [chatCalls EXCEPT ![i] = 1]
    /\ outboundCalls' = [outboundCalls EXCEPT ![i] = 1]
    /\ upstream' = [upstream EXCEPT ![i] = NoValue]
    /\ adapterResult' = [adapterResult EXCEPT ![i] = NoValue]
    /\ httpResult' = [httpResult EXCEPT ![i] = NoValue]
    /\ pc' = [pc EXCEPT ![i] = "awaiting"]

\* the call ends before any adapter's chat is invoked
EndEarly(i, result) ==
    /\ adapter' = [adapter EXCEPT ![i] = NoValue]
    /\ messages' = [messages EXCEPT ![i] = <<>>]
    /\ selectedModel' = [selectedModel EXCEPT ![i] = None]
    /\ payload' = [payload EXCEPT ![i] = NoValue]
    /\ chatCalls' = [chatCalls EXCEPT ![i] = 0]
    /\ outboundCalls' = [outboundCalls EXCEPT ![i] = 0]
    /\ upstream' = [upstream EXCEPT ![i] = NoValue]
    /\ adapterResult' = [adapterResult EXCEPT ![i] = NoValue]
    /\ httpResult' = [httpResult EXCEPT ![i] = result]
    /\ pc' = [pc EXCEPT ![i] = "done"]

CountChecks(inits) ==
    [c \in AdapterClasses |->
        credChecks[c] + Cardinality({k \in 1..Len(inits) : inits[k] = c})]

\* POST /chat arrives: the handler runs up to the await of provider.chat,
\* or to the exception that ends it
Chat(i, req) ==
    /\ pc[i] = "idle"
    /\ served < MaxRequests
    /\ served' = served + 1
    /\ entry' = [entry EXCEPT ![i] = "http"]
    /\ request' = [request EXCEPT ![i] = req]
    /\ LET provider == get_provider(req.provider, env) IN
       /\ credChecks' = CountChecks(provider.inits)
       /\ construction' = [construction EXCEPT ![i] =
                               IF provider.inits = <<>> THEN NoValue
                               ELSE provider.result]
       /\ IF provider.result.kind = "raise"
          THEN EndEarly(i, HandleException(provider.result.exc))
          ELSE Send(i, provider.result.value, BuildMessages(req), req.model)
    /\ UNCHANGED <<env, healthAnswer, providersAnswer>>

\* An adapter class used on its own: cls().chat(msgs, model)
DirectChat(i, cls, msgs, model) ==
    /\ pc[i] = "idle"
    /\ served < MaxRequests
    /\ served' = served + 1
    /\ entry' = [entry EXCEPT ![i] = "direct"]
    /\ request' = [request EXCEPT ![i] = [cls |-> cls, messages |-> msgs, model |-> model]]
    /\ credChecks' = CountChecks(<<cls>>)
    /\ LET self == Construct(cls, env) IN
       /\ construction' = [construction EXCEPT ![i] = self]
       /\ IF self.kind = "raise"
          THEN EndEarly(i, NoValue)
          ELSE Send(i, self.value, msgs, model)
    /\ UNCHANGED <<env, healthAnswer, providersAnswer>>

\* a timeout is answered by posting again
UpstreamRepliesRetry(i, reply) ==
    /\ pc[i] = "awaiting"
    /\ IF reply.kind = "timeout"
       THEN /\ outboundCalls' = [outboundCalls EXCEPT ![i] = @ + 1]
            /\ UNCHANGED <<pc, upstream>>
       ELSE /\ upstream' = [upstream EXCEPT ![i] = reply]
            /\ pc' = [pc EXCEPT ![i] = "closing"]
            /\ UNCHANGED outboundCalls
    /\ UNCHANGED <<env, entry, request, construction, adapter, messages, payload,
                   selectedModel, adapterResult, httpResult, chatCalls, credChecks,
                   healthAnswer, providersAnswer, served>>

\* The outbound call completes: client.post returns the response or raises, and
\* the adapter's chat runs on to the end of "async with httpx.AsyncClient",
\* where it awaits the closing of the client
UpstreamReplies(i, reply) ==
    /\ pc[i] = "awaiting"
    /\ upstream' = [upstream EXCEPT ![i] = reply]
    /\ pc' = [pc EXCEPT ![i] = "closing"]
    /\ UNCHANGED <<env, entry, request, construction, adapter, messages, payload,
                   selectedModel, adapterResult, httpResult, chatCalls, outboundCalls,
                   credChecks, healthAnswer, providersAnswer, served>>

\* The client is closed: the adapter's chat resumes, returns or raises, and for
\* POST /chat the handler runs after it to its answer
ClientClosed(i) ==
    /\ pc[i] = "closing"
    /\ LET res == ChatReceive(adapter[i].cls, selectedModel[i], upstream[i]) IN
       /\ adapterResult' = [adapterResult EXCEPT ![i] = res]
       /\ httpResult' = [httpResult EXCEPT ![i] =
                            IF entry[i] = "http" THEN ChatFinish(request[i], res)
                            ELSE NoValue]
    /\ pc' = [pc EXCEPT ![i] = "done"]
    /\ UNCHANGED <<env, entry, request, construction, adapter, messages, payload,
                   selectedModel, upstream, chatCalls, outboundCalls, credChecks,
                   healthAnswer, providersAnswer, served>>

\* The answer (or the exception) leaves the process and the call's frame is
\* discarded; nothing of the call is kept
Deliver(i) ==
    /\ pc[i] = "done"
    /\ pc' = [pc EXCEPT ![i] = "idle"]
    /\ entry' = [entry EXCEPT ![i] = "http"]
    /\ request' = [request EXCEPT ![i] = NoValue]
    /\ construction' = [construction EXCEPT ![i] = NoValue]
    /\ adapter' = [adapter EXCEPT ![i] = NoValue]
    /\ messages' = [messages EXCEPT ![i] = <<>>]
    /\ payload' = [payload EXCEPT ![i] = NoValue]
    /\ selectedModel' = [selectedModel EXCEPT ![i] = None]
    /\ upstream' = [upstream EXCEPT ![i] = NoValue]
    /\ adapterResult' = [adapterResult EXCEPT ![i] = NoValue]
    /\ httpResult' = [httpResult EXCEPT ![i] = NoValue]
    /\ chatCalls' = [chatCalls EXCEPT ![i] = 0]
    /\ outboundCalls' = [outboundCalls EXCEPT ![i] = 0]
    /\ UNCHANGED <<env, credChecks, healthAnswer, providersAnswer, served>>

\* one call at a time
Next ==
    \/ \E req \in ChatRequests : Chat(1, req)
    \/ \E cls \in AdapterClasses, msgs \in DirectMessages, model \in ModelHints :
          DirectChat(1, cls, msgs, model)
    \/ \E reply \in Replies : UpstreamReplies(1, reply)
    \/ ClientClosed(1)
    \/ Deliver(1)

Spec == Init /\ [][Next]_vars

\* GET /health
Health ==
    /\ healthAnswer' = health_check(env)
    /\ UNCHANGED <<env, pc, entry, request, construction, adapter, messages, payload,
                   selectedModel, upstream, adapterResult, httpResult, chatCalls,
                   outboundCalls, credChecks, providersAnswer, served>>

\* GET /providers
ListProviders ==
    /\ providersAnswer' = list_providers
    /\ UNCHANGED <<env, pc, entry, request, construction, adapter, messages, payload,
                   selectedModel, upstream, adapterResult, httpResult, chatCalls,
                   outboundCalls, credChecks, healthAnswer, served>>

\* The requests, arguments and replies of the calls that run side by side
ServiceRequests ==
    [message : {"How do I blink an LED?"},
     provider : { <<"G", "R", "O", "Q">>,
                  <<"O", "p", "e", "n", "R", "o", "u", "t", "e", "r">>,
                  <<"a", "n", "t", "h", "r", "o", "p", "i", "c">> },
     model : {None, "llama-3.3-70b-versatile"},
     conversation_history : {History(11)}]

ServiceReplies ==
    { [kind |-> "timeout"],
      [kind |-> "response", status_code |-> 200,
       json |-> [choices |-> <<Completion(PyStr("Use pinMode and digitalWrite."))>>]],
      [kind |-> "response", status_code |-> 200,
       json |-> [choices |-> <<Completion(PyNone)>>]],
      [kind |-> "response", status_code |-> 200,
       json |-> [error |-> [message |-> "no route"]]] }

\* The whole service: chat calls in flight side by side, interleaved at their
\* two awaits, and the two GET routes
ServiceNext ==
    \/ \E i \in Slots, req \in ServiceRequests : Chat(i, req)
    \/ \E i \in Slots, cls \in AdapterClasses :
          DirectChat(i, cls, <<UserTurn("How do I blink an LED?")>>, None)
    \/ \E i \in Slots, reply \in ServiceReplies : UpstreamReplies(i, reply)
    \/ \E i \in Slots : ClientClosed(i)
    \/ \E i \in Slots : Deliver(i)
    \/ Health
    \/ ListProviders

ServiceSpec == Init /\ [][ServiceNext]_vars

-----------------------------------------------------------------------------
(* Properties *)

Min(a, b) == IF a < b THEN a ELSE b

\* the calls on which an adapter's chat has been invoked
Invoked(i) == pc[i] # "idle" /\ chatCalls[i] > 0

IsHttp(i) == pc[i] # "idle" /\ entry[i] = "http"

\* C1: the turn sequence handed to the adapter's chat by POST /chat is the system
\* turn, then the last min(len(h), 10) entries of conversation_history in their
\* order, then the user turn of request.message; its length is min(len(h), 10) + 2.
C1_TurnSequence ==
    \A i \in Slots :
        (IsHttp(i) /\ Invoked(i)) =>
            LET h == request[i].conversation_history
                m == Min(Len(h), 10)
            IN /\ Len(messages[i]) = m + 2
               /\ messages[i][1] = [role |-> "system", content |-> ARDUINO_SYSTEM_PROMPT]
               /\ \A k \in 1..m : messages[i][1 + k] = h[Len(h) - m + k]
               /\ messages[i][m + 2] = [role |-> "user", content |-> request[i].message]
               /\ payload[i].messages = messages[i]

\* a history longer than the cap has been truncated and handed to the adapter
C1_Witness ==
    \E i \in Slots :
        /\ IsHttp(i) /\ Invoked(i)
        /\ Len(request[i].conversation_history) = 12
        /\ Len(messages[i]) = 12
        /\ messages[i][2] = request[i].conversation_history[3]

Registered(provider_name) == Lower(provider_name) \in {GROQ, OPENROUTER}

\* C2: a request whose provider, lower-cased, is neither groq nor openrouter is
\* answered 400 with a detail that lists the valid identifiers, and on that path
\* no adapter is constructed, no chat is invoked and no outbound call is made.
C2_UnknownProvider ==
    [][ \A i \in Slots :
          (pc[i] = "idle" /\ pc'[i] # "idle" /\ entry'[i] = "http"
             /\ ~Registered(request'[i].provider)) =>
                /\ pc'[i] = "done"
                /\ httpResult'[i].status_code = 400
                /\ httpResult'[i].detail[Len(httpResult'[i].detail)]
                       = "'. Use: groq | openrouter"
                /\ construction'[i] = NoValue
                /\ adapter'[i] = NoValue
                /\ credChecks' = credChecks
                /\ chatCalls'[i] = 0
                /\ outboundCalls'[i] = 0 ]_vars

\* the provider "anthropic" has been refused
C2_Witness ==
    \E i \in Slots :
        /\ IsHttp(i) /\ pc[i] = "done"
        /\ request[i].provider = <<"a", "n", "t", "h", "r", "o", "p", "i", "c">>
        /\ httpResult[i].status_code = 400
        /\ outboundCalls[i] = 0

\* the class whose chat the call invokes
Cls(i) == adapter[i].cls

\* C3: the model of the outbound payload is the hint when the hint is a key of
\* the adapter's catalog and the adapter's default otherwise (None, empty or
\* unknown); the model the adapter reports is the model of the payload; the
\* call is made whatever the hint.
C3_ModelResolution ==
    \A i \in Slots :
        Invoked(i) =>
            LET hint == request[i].model IN
            /\ (hint \in AVAILABLE_MODELS(Cls(i))) => payload[i].model = hint
            /\ (hint \notin AVAILABLE_MODELS(Cls(i))) =>
                   payload[i].model = DEFAULT_MODEL(Cls(i))
            /\ outboundCalls[i] = 1
            /\ (pc[i] = "done" /\ adapterResult[i].kind = "return") =>
                   adapterResult[i].value.model = payload[i].model

\* an unknown hint has been replaced by the default, which the adapter reports
C3_Witness ==
    \E i \in Slots :
        /\ Invoked(i) /\ pc[i] = "done"
        /\ request[i].model = "gpt-4"
        /\ adapterResult[i].kind = "return"
        /\ adapterResult[i].value.model = DEFAULT_MODEL(Cls(i))

\* the calls whose adapter's chat has run to its end
Answered(i) == Invoked(i) /\ pc[i] = "done"

\* the upstream answered 200 with a JSON body that has an "error" member
EmbeddedError(reply) ==
    reply.kind = "response" /\ reply.status_code = 200 /\ "error" \in DOMAIN reply.json

\* C4: an HTTP 200 reply whose body embeds an error object makes the adapter's
\* chat fail with an error of the adapter's own classification; it is never a
\* success and never fills the response field.
C4_EmbeddedErrorDetected ==
    \A i \in Slots :
        (Answered(i) /\ EmbeddedError(upstream[i])) =>
            /\ adapterResult[i].kind = "raise"
            /\ adapterResult[i].exc.type = "Exception"
            /\ entry[i] = "http" => httpResult[i].status_code # 200

\* The failure kinds of the taxonomy, read off the message an adapter raises
Kind(exc) ==
    LET first == exc.msg[1] IN
    IF exc.type # "Exception" THEN "Unclassified"
    ELSE IF first \in {"Groq API timeout. Please try again.", "OpenRouter timeout.\n"}
    THEN "Timeout"
    ELSE IF first \in {"Invalid GROQ_API_KEY. Check your .env file.",
                       "Invalid OPENROUTER_API_KEY. Check your .env file."}
    THEN "AuthenticationFailed"
    ELSE IF first \in {"Groq rate limit reached. Wait a moment and try again.",
                       "OpenRouter rate limit reached. Wait a moment and try again."}
    THEN "RateLimited"
    ELSE IF first \in {"Groq service unavailable. Try another provider.",
                       "OpenRouter model unavailable.\n"}
    THEN "ServiceUnavailable"
    ELSE IF first = "No credits left on OpenRouter.\n"
    THEN "QuotaExceeded"
    ELSE IF first \in {"Groq API error ", "OpenRouter API error ", "OpenRouter error: "}
    THEN "UpstreamError"
    ELSE "Unclassified"

\* the outbound call timed out or was answered with an error status
UpstreamFailed(reply) ==
    \/ reply.kind = "timeout"
    \/ reply.kind = "response" /\ reply.status_code \notin 200..299

\* the kind the taxonomy gives to a timeout or an error status
ExpectedKind(cls, reply) ==
    IF reply.kind = "timeout" THEN "Timeout"
    ELSE IF reply.status_code = 401 THEN "AuthenticationFailed"
    ELSE IF reply.status_code = 429 THEN "RateLimited"
    ELSE IF reply.status_code = 503 THEN "ServiceUnavailable"
    ELSE IF reply.status_code = 402 /\ cls = "OpenRouterProvider" THEN "QuotaExceeded"
    ELSE "UpstreamError"

\* the kinds of the taxonomy
FailureKinds ==
    {"Timeout", "AuthenticationFailed", "RateLimited", "QuotaExceeded",
     "ServiceUnavailable", "UpstreamError"}

\* C5: every outcome of the outbound call that is no successful response makes
\* the adapter raise exactly one kind of the taxonomy: a timeout Timeout, 401
\* AuthenticationFailed, 429 RateLimited, 503 ServiceUnavailable, 402
\* QuotaExceeded for OpenRouter only, any other status UpstreamError with the
\* status code and the body in its message; an outcome that is neither a timeout
\* nor a response (the connection failed) is a failure too and gets a kind of
\* the taxonomy.
C5_TotalTaxonomy ==
    \A i \in Slots :
        (Answered(i) /\ ~IsSuccess(upstream[i])) =>
            /\ adapterResult[i].kind = "raise"
            /\ Kind(adapterResult[i].exc) \in FailureKinds
            /\ UpstreamFailed(upstream[i]) =>
                  /\ Kind(adapterResult[i].exc) = ExpectedKind(Cls(i), upstream[i])
                  /\ ExpectedKind(Cls(i), upstream[i]) = "UpstreamError" =>
                        /\ adapterResult[i].exc.msg[2] = StatusText(upstream[i].status_code)
                        /\ adapterResult[i].exc.msg[4] = upstream[i].text

\* C6: for one request the adapter's chat is invoked at most once, by the
\* adapter the request names, and at most one outbound call is made, whatever
\* the outcome; a failed request makes no second call.
C6_SingleCall ==
    \A i \in Slots :
        /\ chatCalls[i] <= 1
        /\ outboundCalls[i] <= chatCalls[i]
        /\ (IsHttp(i) /\ Invoked(i)) =>
              (Cls(i) = "GroqProvider" <=> Lower(request[i].provider) = GROQ)
        /\ (Answered(i) /\ adapterResult[i].kind = "raise") => outboundCalls[i] = 1

\* a request has failed on a timeout after its one outbound call
C6_Witness ==
    \E i \in Slots :
        /\ IsHttp(i) /\ Answered(i)
        /\ upstream[i].kind = "timeout"
        /\ httpResult[i].status_code = 500
        /\ outboundCalls[i] = 1

\* C7 as stated: every adapter's credential is checked exactly once, at process
\* start, so once a request has been taken each adapter has been checked once.
C7_CheckedOnceAtStart ==
    served > 0 => \A c \in AdapterClasses : credChecks[c] = 1

\* the adapter classes whose constructor a starting call runs
Built(i) ==
    IF entry'[i] = "http"
    THEN IF Lower(request'[i].provider) = GROQ THEN {"GroqProvider"} ELSE {}
    ELSE {request'[i].cls}

\* C7: nothing is checked at process start; the credential is checked in the
\* constructor, which runs anew in every call that builds the adapter (every
\* POST /chat naming groq); a None or empty credential fails that construction
\* with the ValueError that names the missing variable, before any outbound call.
C7_CheckedAtEachConstruction ==
    /\ \A c \in AdapterClasses : credChecks[c] = 0
    /\ [][ \A i \in Slots :
             (pc[i] = "idle" /\ pc'[i] # "idle") =>
                /\ \A c \in AdapterClasses :
                      credChecks'[c] = credChecks[c] + (IF c \in Built(i) THEN 1 ELSE 0)
                /\ \A c \in Built(i) :
                      IF env[KeyVariable(c)] \in {None, ""}
                      THEN /\ construction'[i].kind = "raise"
                           /\ construction'[i].exc = Exc("ValueError", MissingKeyMessage(c))
                           /\ pc'[i] = "done"
                           /\ outboundCalls'[i] = 0
                           /\ entry'[i] = "http" =>
                                 /\ httpResult'[i].status_code = 500
                                 /\ httpResult'[i].detail = MissingKeyMessage(c)
                      ELSE /\ construction'[i].kind = "return"
                           /\ adapter'[i].api_key = env[KeyVariable(c)] ]_vars

\* the Groq credential has been checked a second time, by a second request, and
\* found missing again
C7_Witness ==
    /\ credChecks["GroqProvider"] = 2
    /\ \E i \in Slots :
          /\ IsHttp(i) /\ construction[i].kind = "raise"
          /\ httpResult[i].status_code = 500

\* C8: with its credential configured, a request naming groq in any spelling
\* has the Groq adapter's chat invoked and one naming openrouter in any spelling
\* the OpenRouter adapter's.
C8_Resolution ==
    \A i \in Slots :
        IsHttp(i) =>
            /\ (Lower(request[i].provider) = GROQ /\ Truthy(env["GROQ_API_KEY"])) =>
                  (Invoked(i) /\ Cls(i) = "GroqProvider")
            /\ (Lower(request[i].provider) = OPENROUTER
                  /\ Truthy(env["OPENROUTER_API_KEY"])) =>
                  (Invoked(i) /\ Cls(i) = "OpenRouterProvider")

\* the content of the first completion of the upstream body of call i
FirstContent(i) == upstream[i].json.choices[1].message.content

\* C9: when the adapter returns, its response is the content of the first
\* completion of the upstream body, unchanged; POST /chat answers 200 exactly
\* when the adapter has returned and that content is a str, and then with that
\* very text as response, the provider as the request spelled it and the model
\* the adapter reported (llama-3.1-8b-instant for groq without a hint).
C9_RoundTrip ==
    \A i \in Slots :
        /\ (Answered(i) /\ adapterResult[i].kind = "return") =>
              /\ adapterResult[i].value.response = FirstContent(i)
              /\ (entry[i] = "http" /\ FirstContent(i).type = "str") =>
                    /\ httpResult[i].status_code = 200
                    /\ httpResult[i].body.response = FirstContent(i).value
                    /\ httpResult[i].body.provider = request[i].provider
                    /\ httpResult[i].body.model = adapterResult[i].value.model
                    /\ (Lower(request[i].provider) = GROQ /\ request[i].model = None) =>
                          httpResult[i].body.model = "llama-3.1-8b-instant"
        /\ (IsHttp(i) /\ pc[i] = "done" /\ httpResult[i].status_code = 200) =>
              /\ Answered(i) /\ adapterResult[i].kind = "return"
              /\ FirstContent(i).type = "str"

\* GROQ without a hint has answered the first of two completions, spaces and
\* newline kept
C9_Witness ==
    \E i \in Slots :
        /\ IsHttp(i) /\ Answered(i)
        /\ request[i].provider = <<"G", "R", "O", "Q">>
        /\ request[i].model = None
        /\ adapterResult[i].kind = "return"
        /\ Len(upstream[i].json.choices) = 2
        /\ httpResult[i].body
              = [response |-> "  first \n", provider |-> <<"G", "R", "O", "Q">>,
                 model |-> "llama-3.1-8b-instant"]

\* the fragments by which the messages of an adapter name its provider
NamingFragments(cls) ==
    IF cls = "GroqProvider"
    THEN {"Groq API timeout. Please try again.",
          "Invalid GROQ_API_KEY. Check your .env file.",
          "Groq rate limit reached. Wait a moment and try again.",
          "Groq service unavailable. Try another provider.",
          "Groq API error "}
    ELSE {"OpenRouter timeout.\n",
          "Invalid OPENROUTER_API_KEY. Check your .env file.",
          "No credits left on OpenRouter.\n",
          "OpenRouter rate limit reached. Wait a moment and try again.",
          "OpenRouter model unavailable.\n",
          "OpenRouter API error ", "OpenRouter error: "}

NamesProvider(detail, cls) == \E k \in 1..Len(detail) : detail[k] \in NamingFragments(cls)

\* C10: an error raised by the adapter's chat is answered with status 500 and a
\* detail that carries the cause and names the provider; an upstream 401 gives
\* the message about the invalid key; it is never answered 200; and 400 is
\* answered for an unknown provider only.
C10_FailureSurfaced ==
    \A i \in Slots :
        (IsHttp(i) /\ pc[i] = "done") =>
            /\ (Invoked(i) /\ adapterResult[i].kind = "raise") =>
                  /\ httpResult[i].status_code = 500
                  /\ httpResult[i].detail = StrOf(adapterResult[i].exc)
                  /\ NamesProvider(httpResult[i].detail, Cls(i))
                  /\ (upstream[i].kind = "response" /\ upstream[i].status_code = 401) =>
                        httpResult[i].detail[1]
                           \in {"Invalid GROQ_API_KEY. Check your .env file.",
                                "Invalid OPENROUTER_API_KEY. Check your .env file."}
            /\ httpResult[i].status_code = 400 => ~Registered(request[i].provider)

\* the sampling parameters every payload carries
FixedSampling(body) ==
    /\ body.temperature = "0.7"
    /\ body.max_tokens = 1024
    /\ body.top_p = 1

\* C11 as stated: every adapter's payload holds the resolved model, the turns
\* as received, temperature 0.7, max_tokens 1024, top_p 1 and stream false.
C11_PayloadWithStreamFalse ==
    \A i \in Slots :
        Invoked(i) =>
            /\ payload[i].model = selectedModel[i]
            /\ payload[i].messages = messages[i]
            /\ FixedSampling(payload[i])
            /\ "stream" \in DOMAIN payload[i]
            /\ payload[i].stream = FALSE

\* C11: every adapter's payload holds the resolved model, the turns exactly as
\* the adapter received them, temperature 0.7, max_tokens 1024 and top_p 1,
\* whatever the request; the Groq payload also holds stream false, the
\* OpenRouter payload has no stream member at all.
C11_Payload ==
    \A i \in Slots :
        Invoked(i) =>
            /\ payload[i].model = selectedModel[i]
            /\ payload[i].model \in AVAILABLE_MODELS(Cls(i))
            /\ payload[i].messages = messages[i]
            /\ entry[i] = "direct" => payload[i].messages = request[i].messages
            /\ FixedSampling(payload[i])
            /\ IF Cls(i) = "GroqProvider"
               THEN /\ DOMAIN payload[i] = {"model", "messages", "temperature",
                                            "max_tokens", "top_p", "stream"}
                    /\ payload[i].stream = FALSE
               ELSE DOMAIN payload[i] = {"model", "messages", "temperature",
                                         "max_tokens", "top_p"}

\* the OpenRouter adapter has posted a payload with the hinted model, four
\* turns and no stream member
C11_Witness ==
    \E i \in Slots :
        /\ Invoked(i) /\ Cls(i) = "OpenRouterProvider"
        /\ payload[i].model = "openai/gpt-3.5-turbo"
        /\ Len(payload[i].messages) = 4
        /\ "stream" \notin DOMAIN payload[i]

\* the adapter class behind a name of the listing
ListedClass(name) == IF name = "groq" THEN "GroqProvider" ELSE "OpenRouterProvider"

\* C12: for every provider GET /providers lists, the default model listed is the
\* DEFAULT_MODEL of its adapter and a key of the adapter's catalog.
C12_ListedDefaults ==
    providersAnswer # NoValue =>
        \A k \in 1..Len(providersAnswer.providers) :
            LET listed == providersAnswer.providers[k] IN
            /\ listed.default_model = DEFAULT_MODEL(ListedClass(listed.name))
            /\ listed.default_model \in AVAILABLE_MODELS(ListedClass(listed.name))

\* what slot i holds of its call
Frame(i) ==
    <<pc[i], entry[i], request[i], construction[i], adapter[i], messages[i],
      payload[i], selectedModel[i], upstream[i], adapterResult[i], httpResult[i],
      chatCalls[i], outboundCalls[i]>>

\* the model the adapter of call i resolves from the call's own hint
OwnModel(i) == SelectModel(Cls(i), request[i].model)

\* each call's turns, model, payload and outcome are those of its own request
\* and its own upstream reply
OwnOutcome(i) ==
    /\ Invoked(i) =>
          /\ messages[i] = IF entry[i] = "http" THEN BuildMessages(request[i])
                           ELSE request[i].messages
          /\ selectedModel[i] = OwnModel(i)
          /\ payload[i] = BuildPayload(Cls(i), OwnModel(i), messages[i])
    /\ Answered(i) =>
          /\ adapterResult[i] = ChatReceive(Cls(i), OwnModel(i), upstream[i])
          /\ entry[i] = "http" => httpResult[i] = ChatFinish(request[i], adapterResult[i])

\* C13: with calls in flight side by side and interleaved at their awaits, each
\* call's outgoing turns, resolved model and answer are determined by its own
\* request and its own upstream reply, and a step of one call changes nothing
\* another call holds; the environment is never written.
C13_Independence ==
    /\ [](\A i \in Slots : OwnOutcome(i))
    /\ [][ /\ env' = env
           /\ \A i \in Slots : pc'[i] = pc[i] => Frame(i)' = Frame(i) ]_vars

\* two calls are in flight at once with different resolved models: one has been
\* answered with its own model while the other still awaits its reply
C13_Witness ==
    \E i, j \in Slots :
        /\ i # j
        /\ IsHttp(i) /\ Answered(i) /\ adapterResult[i].kind = "return"
        /\ pc[j] = "awaiting"
        /\ selectedModel[i] = "llama-3.3-70b-versatile"
        /\ selectedModel[j] # selectedModel[i]
        /\ httpResult[i].body.model = "llama-3.3-70b-versatile"

\* the adapter class a registered provider name stands for
NamedClass(provider_name) ==
    IF Lower(provider_name) = GROQ THEN "GroqProvider" ELSE "OpenRouterProvider"

OtherClass(cls) == IF cls = "GroqProvider" THEN "OpenRouterProvider" ELSE "GroqProvider"

CredentialSet(cls) == env[KeyVariable(cls)] \notin {None, ""}

\* C14: when exactly one of the two credentials is absent, a chat request to
\* the provider without credential fails with MissingCredential and a chat
\* request to the other provider reaches that provider's adapter.
C14_MissingCredentialIsLocal ==
    \A i \in Slots :
        (IsHttp(i) /\ Registered(request[i].provider)) =>
            LET cls == NamedClass(request[i].provider) IN
            /\ (~CredentialSet(cls) /\ CredentialSet(OtherClass(cls))) =>
                  /\ pc[i] = "done"
                  /\ httpResult[i].status_code = 500
                  /\ httpResult[i].detail = MissingKeyMessage(cls)
            /\ (CredentialSet(cls) /\ ~CredentialSet(OtherClass(cls))) =>
                  (Invoked(i) /\ Cls(i) = cls)

\* C15: an outbound call is made only by an adapter that holds the non-empty
\* credential of the environment; a chat request to a provider whose credential
\* is None or empty is answered 500 with no turn sequence built, no chat invoked
\* and no outbound call; and the flag of GET /health for a provider is false
\* exactly when its credential is None or empty.
C15_CredentialGate ==
    /\ \A i \in Slots :
          /\ outboundCalls[i] > 0 =>
                /\ adapter[i].api_key \notin {None, ""}
                /\ adapter[i].api_key = env[KeyVariable(Cls(i))]
          /\ (IsHttp(i) /\ Registered(request[i].provider)
                /\ ~CredentialSet(NamedClass(request[i].provider))) =>
                /\ pc[i] = "done"
                /\ httpResult[i].status_code = 500
                /\ messages[i] = <<>>
                /\ payload[i] = NoValue
                /\ chatCalls[i] = 0
                /\ outboundCalls[i] = 0
    /\ healthAnswer # NoValue =>
          /\ healthAnswer.providers.groq = CredentialSet("GroqProvider")
          /\ healthAnswer.providers.openrouter = CredentialSet("OpenRouterProvider")

\* with GROQ_API_KEY empty, /health has answered false for groq and a chat
\* request to groq has been refused without an outbound call
C15_Witness ==
    /\ env["GROQ_API_KEY"] = ""
    /\ healthAnswer # NoValue
    /\ healthAnswer.providers.groq = FALSE
    /\ \E i \in Slots :
          /\ IsHttp(i) /\ pc[i] = "done"
          /\ Lower(request[i].provider) = GROQ
          /\ httpResult[i].status_code = 500
          /\ outboundCalls[i] = 0

====
